---- MODULE Spec2Model ----
(***************************************************************************)
(* Extra-P execution shells.                                               *)
(*                                                                         *)
(*   extrap/extrapcmd.py  main()  the batch driver                         *)
(*   extrap/extrapgui.py  main()  the interactive driver and the           *)
(*                                font-preloading worker thread            *)
(*                                                                         *)
(* The two drivers are separate processes: SpecCmd runs the batch driver,  *)
(* SpecGui the interactive one.                                            *)
(***************************************************************************)
EXTENDS Integers, Sequences, FiniteSets, TLC

\* ------------------------------------------------------------------------
\* Values.  A Python value is a tagged tuple so that None, strings and
\* nested mappings can live in one dict.
\* ------------------------------------------------------------------------
None == <<"None">>
Str(s) == <<"str", s>>
Map(f) == <<"map", f>>
\* hasattr(obj, name) is false
Absent == <<"absent">>
EmptyMap == [k \in {} |-> None]

\* ------------------------------------------------------------------------
\* Bounds of the model
\* ------------------------------------------------------------------------
\* number of events the interactive event loop dispatches in one session
MaxEvents == 2

\* ------------------------------------------------------------------------
\* extrapcmd.py: the command line
\* ------------------------------------------------------------------------
\* the five store_true flags of the mutually exclusive group
SelectorFlags == {"cube", "text", "talpas", "json", "extrap3"}
\* what os.path.isdir / os.path.isfile can say about arguments.path
PathKinds == {"file", "dir", "missing"}
os_path_isdir(p) == p = "dir"
os_path_isfile(p) == p = "file"

\* the two registries of named strategies (extrap.modelers)
SingleModelers == {"Default", "Basic"}
MultiModelers == {"Multi-Parameter"}
modelers_list == SingleModelers \cup MultiModelers
\* the variant a composite strategy is constructed with
DefaultNestedModeler == "Default"

\* the reserved keys of the options mapping (extrap.util.options_parser): two
\* strings that are neither an option name nor the attribute
\* single_parameter_modeler
SINGLE_PARAMETER_MODELER_KEY == "#single_parameter_modeler"
SINGLE_PARAMETER_OPTIONS_KEY == "#single_parameter_options"
ReservedKeys == {SINGLE_PARAMETER_MODELER_KEY, SINGLE_PARAMETER_OPTIONS_KEY}

\* option names the user can type: one the strategies declare, one they do not
DeclaredOptions == {"poly_exponents"}
OptionNames == DeclaredOptions \cup {"no_such_option"}
OptionValues == {None, Str("1")}
AttrNames == OptionNames \cup ReservedKeys

\* all dicts over subsets of names
MapsOver(names, values) == UNION {[D -> values] : D \in SUBSET names}

\* Values the nested-strategy selector can carry
SelectorValues == {None} \cup {Str(n) : n \in SingleModelers \cup {"UNKNOWN_NAME"}}

\* ModelerOptionsAction: the KEY=VALUE tokens collected into one mapping.  For
\* a composite strategy the mapping carries the two reserved keys; without
\* --options the mapping is the default {}.
ModelerOptionsAction(modeler) ==
    IF modeler \in MultiModelers
    THEN {EmptyMap} \cup
         {p @@ [k \in ReservedKeys |->
                  IF k = SINGLE_PARAMETER_MODELER_KEY THEN s ELSE Map(n)] :
             p \in MapsOver(OptionNames, OptionValues),
             s \in SelectorValues,
             n \in MapsOver(DeclaredOptions, OptionValues)}
    ELSE MapsOver(OptionNames, OptionValues)

NoArguments ==
    [flags |-> {}, path |-> "missing", out |-> FALSE, modeler |-> "Default",
     modeler_options |-> EmptyMap]

\* ------------------------------------------------------------------------
\* extrapcmd.py: strategies
\* ------------------------------------------------------------------------
\* single_parameter.all_modelers[name]() : a new nested strategy instance
NewSingleModeler(name, inst) ==
    [variant |-> name, inst |-> inst,
     attrs |-> [k \in DeclaredOptions |-> Str("default")]]

\* the modeler ModelGenerator(experiment, modeler=name, ...) constructs
NewModeler(name) ==
    [name |-> name,
     multi |-> name \in MultiModelers,
     attrs |-> [k \in AttrNames |->
                  IF k \in DeclaredOptions THEN Str("default") ELSE Absent],
     single_parameter_modeler |->
         IF name \in MultiModelers
         THEN NewSingleModeler(DefaultNestedModeler, "constructed")
         ELSE NewSingleModeler("", "none")]

NoModeler == NewModeler("Default")

\* setattr(obj, name, value) for every item whose value is not None
SetAttrs(attrs, options) ==
    [k \in DOMAIN attrs |->
        IF k \in DOMAIN options /\ options[k] # None THEN options[k] ELSE attrs[k]]

VARIABLES
    cpc,              \* batch driver: position in main()
    arguments,        \* batch driver: the argparse namespace
    experiment,       \* batch driver: reader that produced the experiment
    modeler,          \* batch driver: model_generator.modeler
    logged,           \* batch driver: message given to logging.error / traceback
    exited,           \* batch driver: the process has terminated
    exitStatus,       \* batch driver: its exit status
    modelAllInvoked,  \* batch driver: model_generator.model_all was called
    printed,          \* batch driver: print(text) was called
    saved             \* batch driver: save_output was called

cmdVars == <<cpc, arguments, experiment, modeler, logged, exited, exitStatus,
             modelAllInvoked, printed, saved>>

VARIABLES
    gpc,              \* interactive driver: position of the main thread
    test,             \* interactive driver: main(test=...)
    argv,             \* interactive driver: sys.argv
    worker,           \* font preloader thread: not_started, running, finished
    fontsLeft,        \* font preloader thread: fonts still to look up
    readerCalled,     \* interactive driver: reader used for the startup file
    windowCall,       \* interactive driver: method of window given the experiment
    events,           \* interactive driver: events dispatched by the event loop
    curExc,           \* interactive driver: class of the exception being handled
    excDialogs,       \* dialogs shown with open() by _exception_handler, still open
    warnDialogs,      \* dialogs shown with open() by _warnings_handler, still open
    execDialog,       \* the dialog run with exec_(): none, open, dismissed
    oldHandlerCalls,  \* calls of _old_exception_handler
    gExited,          \* interactive driver: the process was terminated by exit()
    gExitStatus       \* interactive driver: its exit status

guiVars == <<gpc, test, argv, worker, fontsLeft, readerCalled, windowCall, events,
             curExc, excDialogs, warnDialogs, execDialog, oldHandlerCalls,
             gExited, gExitStatus>>

vars == <<cmdVars, guiVars>>

InitCmd ==
    /\ cpc = "start"
    /\ arguments = NoArguments
    /\ experiment = "none"
    /\ modeler = NoModeler
    /\ logged = ""
    /\ exited = FALSE
    /\ exitStatus = 0
    /\ modelAllInvoked = FALSE
    /\ printed = FALSE
    /\ saved = FALSE

\* sys.exit(status) after logging.error(message), or an uncaught exception
Exit(status, message) ==
    /\ cpc' = "exited"
    /\ exited' = TRUE
    /\ exitStatus' = status
    /\ logged' = message

\* parser.parse_args(args): the required mutually exclusive group lets exactly
\* one selector through; argparse ends the process with status 2 otherwise.
ParseArgs ==
    /\ cpc = "start"
    /\ \E flags \in SUBSET SelectorFlags, path \in PathKinds, out \in BOOLEAN,
          name \in modelers_list :
         \E options \in ModelerOptionsAction(name) :
            /\ arguments' = [flags |-> flags, path |-> path, out |-> out,
                             modeler |-> name, modeler_options |-> options]
            /\ IF Cardinality(flags) = 1
               THEN /\ cpc' = "load"
                    /\ UNCHANGED <<exited, exitStatus, logged>>
               ELSE Exit(2, "usage")
    /\ UNCHANGED <<experiment, modeler, modelAllInvoked, printed, saved>>
    /\ UNCHANGED guiVars

\* the reader chosen for a regular file: the if/elif chain on the selectors
FileReader(args) ==
    IF "text" \in args.flags
    THEN [ok |-> TRUE, reader |-> "read_text_file", error |-> ""]
    ELSE IF "talpas" \in args.flags
    THEN [ok |-> TRUE, reader |-> "read_talpas_file", error |-> ""]
    ELSE IF "json" \in args.flags
    THEN [ok |-> TRUE, reader |-> "read_json_file", error |-> ""]
    ELSE IF "extrap3" \in args.flags
    THEN [ok |-> TRUE, reader |-> "read_extrap3_experiment", error |-> ""]
    ELSE [ok |-> FALSE, reader |-> "none",
          error |-> "The file format specifier is missing."]

\* LoadResult without the os.path.isdir test of the cube branch
LoadResult_CubeUnchecked(args) ==
    IF "cube" \in args.flags
    THEN [ok |-> TRUE, reader |-> "read_cube_file", error |-> ""]
    ELSE IF os_path_isfile(args.path)
         THEN FileReader(args)
         ELSE [ok |-> FALSE, reader |-> "none",
               error |-> "The given file path is not valid."]

\* LoadResult with os.path.exists in place of os.path.isfile
LoadResult_ExistsForIsfile(args) ==
    IF "cube" \in args.flags
    THEN IF os_path_isdir(args.path)
         THEN [ok |-> TRUE, reader |-> "read_cube_file", error |-> ""]
         ELSE [ok |-> FALSE, reader |-> "none",
               error |-> "The given path is not valid. It must point to a directory."]
    ELSE IF args.path # "missing"
         THEN FileReader(args)
         ELSE [ok |-> FALSE, reader |-> "none",
               error |-> "The given file path is not valid."]

\* the with-block that selects the reader
LoadResult(args) ==
    IF "cube" \in args.flags
    THEN IF os_path_isdir(args.path)
         THEN [ok |-> TRUE, reader |-> "read_cube_file", error |-> ""]
         ELSE [ok |-> FALSE, reader |-> "none",
               error |-> "The given path is not valid. It must point to a directory."]
    ELSE IF os_path_isfile(args.path)
         THEN FileReader(args)
         ELSE [ok |-> FALSE, reader |-> "none",
               error |-> "The given file path is not valid."]

LoadFile ==
    /\ cpc = "load"
    /\ LET r == LoadResult(arguments) IN
         IF r.ok
         THEN /\ experiment' = r.reader
              /\ cpc' = "generator"
              /\ UNCHANGED <<exited, exitStatus, logged>>
         ELSE /\ Exit(1, r.error)
              /\ UNCHANGED experiment
    /\ UNCHANGED <<arguments, modeler, modelAllInvoked, printed, saved>>
    /\ UNCHANGED guiVars

\* experiment.debug(); model_generator = ModelGenerator(...);
\* modeler = model_generator.modeler
CreateModelGenerator ==
    /\ cpc = "generator"
    /\ modeler' = NewModeler(arguments.modeler)
    /\ cpc' = "configure"
    /\ UNCHANGED <<arguments, experiment, logged, exited, exitStatus,
                   modelAllInvoked, printed, saved>>
    /\ UNCHANGED guiVars

\* AllModelersLookup as all_modelers.get(name, <default class>): no KeyError
AllModelersLookup_Get(name) ==
    IF name \in SingleModelers
    THEN [ok |-> TRUE, variant |-> name]
    ELSE [ok |-> TRUE, variant |-> DefaultNestedModeler]

\* single_parameter.all_modelers[single_modeler]: a dict lookup, KeyError on
\* a name that is not registered
AllModelersLookup(name) ==
    IF name \in SingleModelers
    THEN [ok |-> TRUE, variant |-> name]
    ELSE [ok |-> FALSE, variant |-> ""]

\* SelectSingleModeler that never replaces the nested strategy
SelectSingleModeler_KeepsDefault(current, single_modeler) ==
    current

\* the nested strategy after "set single parameter modeler of multi parameter
\* modeler": replaced by a new instance when the selector is not None
SelectSingleModeler(current, single_modeler) ==
    IF single_modeler # None
    THEN NewSingleModeler(AllModelersLookup(single_modeler[2]).variant, "fresh")
    ELSE current

\* the composite branch of "apply modeler options"
ApplySingleParameterOptions ==
    /\ cpc = "configure"
    /\ LET options == arguments.modeler_options IN
         IF modeler.multi /\ DOMAIN options # {}
         THEN LET single_modeler == options[SINGLE_PARAMETER_MODELER_KEY]
                  nested == options[SINGLE_PARAMETER_OPTIONS_KEY][2]
                  spm == SelectSingleModeler(modeler.single_parameter_modeler,
                                             single_modeler)
              IN IF single_modeler # None /\ ~AllModelersLookup(single_modeler[2]).ok
                 THEN /\ Exit(1, "KeyError")
                      /\ UNCHANGED modeler
                 ELSE /\ modeler' =
                           [modeler EXCEPT !.single_parameter_modeler =
                              [spm EXCEPT !.attrs = SetAttrs(spm.attrs, nested)]]
                      /\ cpc' = "apply"
                      /\ UNCHANGED <<exited, exitStatus, logged>>
         ELSE /\ cpc' = "apply"
              /\ UNCHANGED <<modeler, exited, exitStatus, logged>>
    /\ UNCHANGED <<arguments, experiment, modelAllInvoked, printed, saved>>
    /\ UNCHANGED guiVars

\* for name, value in arguments.modeler_options.items(): setattr(modeler, ...)
ApplyModelerOptions ==
    /\ cpc = "apply"
    /\ modeler' = [modeler EXCEPT
                     !.attrs = SetAttrs(modeler.attrs, arguments.modeler_options)]
    /\ cpc' = "model"
    /\ UNCHANGED <<arguments, experiment, logged, exited, exitStatus,
                   modelAllInvoked, printed, saved>>
    /\ UNCHANGED guiVars

\* model_generator.model_all(pbar)
ModelAll ==
    /\ cpc = "model"
    /\ modelAllInvoked' = TRUE
    /\ cpc' = "format"
    /\ UNCHANGED <<arguments, experiment, modeler, logged, exited, exitStatus,
                   printed, saved>>
    /\ UNCHANGED guiVars

\* text = format_output(experiment, printtype); print(text)
FormatAndPrint ==
    /\ cpc = "format"
    /\ printed' = TRUE
    /\ cpc' = "save"
    /\ UNCHANGED <<arguments, experiment, modeler, logged, exited, exitStatus,
                   modelAllInvoked, saved>>
    /\ UNCHANGED guiVars

\* if print_output: save_output(text, print_path); main returns
SaveOutput ==
    /\ cpc = "save"
    /\ saved' = arguments.out
    /\ cpc' = "done"
    /\ exited' = TRUE
    /\ exitStatus' = 0
    /\ UNCHANGED <<arguments, experiment, modeler, logged, modelAllInvoked,
                   printed>>
    /\ UNCHANGED guiVars

NextCmd ==
    \/ ParseArgs
    \/ LoadFile
    \/ CreateModelGenerator
    \/ ApplySingleParameterOptions
    \/ ApplyModelerOptions
    \/ ModelAll
    \/ FormatAndPrint
    \/ SaveOutput

\* ------------------------------------------------------------------------
\* extrapgui.py
\* ------------------------------------------------------------------------
\* len(common_fonts)
NumFonts == 26

\* the command lines the startup code tells apart
StartupSelectors == {"--text", "--json", "--extra-p-3"}
ArgvChoices ==
    {<<"extrapgui">>, <<"extrapgui", "--debug">>, <<"extrapgui", "--text">>}
    \cup {<<"extrapgui", s, "PATH">> : s \in StartupSelectors \cup {"--debug"}}

InitGui ==
    /\ gpc = "start"
    /\ test = FALSE
    /\ argv = <<"extrapgui">>
    /\ worker = "not_started"
    /\ fontsLeft = 0
    /\ readerCalled = "none"
    /\ windowCall = "none"
    /\ events = 0
    /\ curExc = "none"
    /\ excDialogs = 0
    /\ warnDialogs = 0
    /\ execDialog = "none"
    /\ oldHandlerCalls = 0
    /\ gExited = FALSE
    /\ gExitStatus = 0

\* main(test=t) is entered; font_preloader = _preload_common_fonts() starts
\* the worker thread
PreloadCommonFonts ==
    /\ gpc = "start"
    /\ \E t \in BOOLEAN, a \in ArgvChoices :
         /\ test' = t
         /\ argv' = a
    /\ worker' = "running"
    /\ fontsLeft' = NumFonts
    /\ gpc' = "preloaded"
    /\ UNCHANGED <<readerCalled, windowCall, events, curExc, excDialogs,
                   warnDialogs, execDialog, oldHandlerCalls, gExited, gExitStatus>>
    /\ UNCHANGED cmdVars

\* _thread: one font_manager.findfont(f) of the loop
WorkerFindFont ==
    /\ worker = "running"
    /\ fontsLeft > 0
    /\ fontsLeft' = fontsLeft - 1
    /\ UNCHANGED <<gpc, test, argv, worker, readerCalled, windowCall, events,
                   curExc, excDialogs, warnDialogs, execDialog, oldHandlerCalls,
                   gExited, gExitStatus>>
    /\ UNCHANGED cmdVars

\* _thread returns: the worker thread ends
WorkerFinish ==
    /\ worker = "running"
    /\ fontsLeft = 0
    /\ worker' = "finished"
    /\ UNCHANGED <<gpc, test, argv, fontsLeft, readerCalled, windowCall, events,
                   curExc, excDialogs, warnDialogs, execDialog, oldHandlerCalls,
                   gExited, gExitStatus>>
    /\ UNCHANGED cmdVars

\* logging, QApplication, palette, window = MainWidget(), the two handlers
\* installed, window.show()
CreateWindow ==
    /\ gpc = "preloaded"
    /\ gpc' = "shown"
    /\ UNCHANGED <<test, argv, worker, fontsLeft, readerCalled, windowCall,
                   events, curExc, excDialogs, warnDialogs, execDialog,
                   oldHandlerCalls, gExited, gExitStatus>>
    /\ UNCHANGED cmdVars

\* the if/elif chain on sys.argv: which reader runs and which method of the
\* window receives the experiment
StartupLoad(a) ==
    IF Len(a) >= 3 /\ "--text" = a[2]
    THEN [reader |-> "read_text_file", call |-> "model_experiment"]
    ELSE IF Len(a) >= 3 /\ "--json" = a[2]
    THEN [reader |-> "read_json_file", call |-> "model_experiment"]
    ELSE IF Len(a) >= 3 /\ "--extra-p-3" = a[2]
    THEN [reader |-> "read_extrap3_experiment", call |-> "setExperiment"]
    ELSE [reader |-> "none", call |-> "none"]

AutoLoad ==
    /\ gpc = "shown"
    /\ readerCalled' = StartupLoad(argv).reader
    /\ windowCall' = StartupLoad(argv).call
    /\ gpc' = "loaded"
    /\ UNCHANGED <<test, argv, worker, fontsLeft, events, curExc, excDialogs,
                   warnDialogs, execDialog, oldHandlerCalls, gExited, gExitStatus>>
    /\ UNCHANGED cmdVars

\* a join that does not wait for the thread
JoinReturns_NoWait == TRUE

\* font_preloader.join() returns only when the worker thread has ended
JoinReturns == worker = "finished"

\* if not test: app.exec_()
EnterEventLoop ==
    /\ gpc = "loaded"
    /\ ~test
    /\ gpc' = "eventloop"
    /\ UNCHANGED <<test, argv, worker, fontsLeft, readerCalled, windowCall,
                   events, curExc, excDialogs, warnDialogs, execDialog,
                   oldHandlerCalls, gExited, gExitStatus>>
    /\ UNCHANGED cmdVars

\* else: font_preloader.join(); return window, app
JoinAndReturnTest ==
    /\ gpc = "loaded"
    /\ test
    /\ JoinReturns
    /\ gpc' = "returned"
    /\ UNCHANGED <<test, argv, worker, fontsLeft, readerCalled, windowCall,
                   events, curExc, excDialogs, warnDialogs, execDialog,
                   oldHandlerCalls, gExited, gExitStatus>>
    /\ UNCHANGED cmdVars

\* an event handler run by the event loop raises; sys.excepthook is entered
RaiseException ==
    /\ gpc = "eventloop"
    /\ events < MaxEvents
    /\ events' = events + 1
    /\ \E type \in {"RecoverableError", "Exception"} : curExc' = type
    /\ gpc' = "handler"
    /\ UNCHANGED <<test, argv, worker, fontsLeft, readerCalled, windowCall,
                   excDialogs, warnDialogs, execDialog, oldHandlerCalls,
                   gExited, gExitStatus>>
    /\ UNCHANGED cmdVars

\* HandlerOutcome with msgBox.open() in place of msgBox.exec_()
HandlerOutcome_OpenThenExit(type, isTest) ==
    IF isTest
    THEN [dialog |-> "none", exit |-> FALSE]
    ELSE IF type = "RecoverableError"
    THEN [dialog |-> "open", exit |-> FALSE]
    ELSE [dialog |-> "open", exit |-> TRUE]

\* HandlerOutcome with exit(1) after the dialog of a RecoverableError too
HandlerOutcome_RecoverableExits(type, isTest) ==
    IF isTest
    THEN [dialog |-> "none", exit |-> FALSE]
    ELSE IF type = "RecoverableError"
    THEN [dialog |-> "open", exit |-> TRUE]
    ELSE [dialog |-> "exec_", exit |-> TRUE]

\* the branches of _exception_handler after the message box is built:
\* how the dialog is shown and whether exit(1) follows
HandlerOutcome(type, isTest) ==
    IF isTest
    THEN [dialog |-> "none", exit |-> FALSE]
    ELSE IF type = "RecoverableError"
    THEN [dialog |-> "open", exit |-> FALSE]
    ELSE [dialog |-> "exec_", exit |-> TRUE]

\* _exception_handler(type, value, traceback_) up to the point where it
\* returns, exits, or blocks in msgBox.exec_()
ExceptionHandler ==
    /\ gpc = "handler"
    /\ oldHandlerCalls' = oldHandlerCalls + 1
    /\ LET o == HandlerOutcome(curExc, test) IN
         IF o.dialog = "exec_"
         THEN /\ execDialog' = "open"
              /\ gpc' = "exec_"
              /\ UNCHANGED <<excDialogs, gExited, gExitStatus>>
         ELSE /\ excDialogs' = IF o.dialog = "open" THEN excDialogs + 1 ELSE excDialogs
              /\ IF o.exit
                 THEN /\ gpc' = "terminated"
                      /\ gExited' = TRUE
                      /\ gExitStatus' = 1
                 ELSE /\ gpc' = "eventloop"
                      /\ UNCHANGED <<gExited, gExitStatus>>
              /\ UNCHANGED execDialog
    /\ UNCHANGED <<test, argv, worker, fontsLeft, readerCalled, windowCall,
                   events, curExc, warnDialogs>>
    /\ UNCHANGED cmdVars

\* the user dismisses the dialog that msgBox.exec_() is running
DismissExecDialog ==
    /\ gpc = "exec_"
    /\ execDialog = "open"
    /\ execDialog' = "dismissed"
    /\ UNCHANGED <<gpc, test, argv, worker, fontsLeft, readerCalled, windowCall,
                   events, curExc, excDialogs, warnDialogs, oldHandlerCalls,
                   gExited, gExitStatus>>
    /\ UNCHANGED cmdVars

\* msgBox.exec_() returns; exit(1)
ExecReturns ==
    /\ gpc = "exec_"
    /\ execDialog = "dismissed"
    /\ IF HandlerOutcome(curExc, test).exit
       THEN /\ gpc' = "terminated"
            /\ gExited' = TRUE
            /\ gExitStatus' = 1
       ELSE /\ gpc' = "eventloop"
            /\ UNCHANGED <<gExited, gExitStatus>>
    /\ UNCHANGED <<test, argv, worker, fontsLeft, readerCalled, windowCall,
                   events, curExc, excDialogs, warnDialogs, execDialog,
                   oldHandlerCalls>>
    /\ UNCHANGED cmdVars

\* a warning is issued while the event loop runs: _warnings_handler
WarningsHandler ==
    /\ gpc = "eventloop"
    /\ events < MaxEvents
    /\ events' = events + 1
    /\ warnDialogs' = IF ~test THEN warnDialogs + 1 ELSE warnDialogs
    /\ UNCHANGED <<gpc, test, argv, worker, fontsLeft, readerCalled, windowCall,
                   curExc, excDialogs, execDialog, oldHandlerCalls,
                   gExited, gExitStatus>>
    /\ UNCHANGED cmdVars

\* the user closes a dialog that was shown with open()
DismissOpenDialog ==
    /\ gpc = "eventloop"
    /\ \/ /\ excDialogs > 0
          /\ excDialogs' = excDialogs - 1
          /\ UNCHANGED warnDialogs
       \/ /\ warnDialogs > 0
          /\ warnDialogs' = warnDialogs - 1
          /\ UNCHANGED excDialogs
    /\ UNCHANGED <<gpc, test, argv, worker, fontsLeft, readerCalled, windowCall,
                   events, curExc, execDialog, oldHandlerCalls, gExited, gExitStatus>>
    /\ UNCHANGED cmdVars

\* the user closes the main window: app.exec_() returns
EventLoopReturns ==
    /\ gpc = "eventloop"
    /\ gpc' = "loop_exited"
    /\ UNCHANGED <<test, argv, worker, fontsLeft, readerCalled, windowCall,
                   events, curExc, excDialogs, warnDialogs, execDialog,
                   oldHandlerCalls, gExited, gExitStatus>>
    /\ UNCHANGED cmdVars

\* font_preloader.join() after app.exec_(); main returns
JoinAndReturn ==
    /\ gpc = "loop_exited"
    /\ JoinReturns
    /\ gpc' = "returned"
    /\ UNCHANGED <<test, argv, worker, fontsLeft, readerCalled, windowCall,
                   events, curExc, excDialogs, warnDialogs, execDialog,
                   oldHandlerCalls, gExited, gExitStatus>>
    /\ UNCHANGED cmdVars

NextGui ==
    \/ PreloadCommonFonts
    \/ WorkerFindFont
    \/ WorkerFinish
    \/ CreateWindow
    \/ AutoLoad
    \/ EnterEventLoop
    \/ JoinAndReturnTest
    \/ RaiseException
    \/ ExceptionHandler
    \/ DismissExecDialog
    \/ ExecReturns
    \/ WarningsHandler
    \/ DismissOpenDialog
    \/ EventLoopReturns
    \/ JoinAndReturn

Init == InitCmd /\ InitGui

SpecCmd == Init /\ [][NextCmd]_vars

SpecGui == Init /\ [][NextGui]_vars

\* ========================================================================
\* Properties of the batch driver (SpecCmd)
\* ========================================================================
AfterModelAllReached == cpc \in {"model", "format", "save", "done"}
OneSelector == cpc # "start" /\ Cardinality(arguments.flags) = 1

\* the path does not fit the selector
PathRejected ==
    /\ OneSelector
    /\ \/ "cube" \in arguments.flags /\ arguments.path # "dir"
       \/ "cube" \notin arguments.flags /\ arguments.path # "file"

\* C1: when the path is rejected (cube selector and not a directory, or a
\* non-cube selector and not a regular file) an error is logged and the
\* process ends with status 1; model_all is never invoked, nothing is printed
\* and nothing is saved, with or without --out.
C1_PathRejectedExits ==
    PathRejected =>
        /\ ~modelAllInvoked /\ ~printed /\ ~saved
        /\ experiment = "none"
        /\ cpc \in {"load", "exited"}
        /\ cpc = "exited" =>
              /\ exited /\ exitStatus = 1
              /\ logged \in {"The given path is not valid. It must point to a directory.",
                             "The given file path is not valid."}

C1_Witness ==
    PathRejected /\ exited /\ exitStatus = 1 /\ arguments.out /\ logged # ""

\* a directory is passed with a format selector that is not --cube
DirectoryWithoutCube ==
    /\ OneSelector
    /\ "cube" \notin arguments.flags
    /\ arguments.path = "dir"

\* C2 as stated: a directory passed without --cube ends with status 1 and the
\* 'format specifier is missing' error, and no output file is written.
C2_Original ==
    DirectoryWithoutCube /\ cpc # "load" =>
        /\ exited /\ exitStatus = 1
        /\ logged = "The file format specifier is missing."
        /\ ~saved

\* C2 amended: a directory passed with a selector other than --cube ends with
\* status 1 and the 'The given file path is not valid.' error, model_all is
\* not invoked and no output file is written even when --out is given.
C2_DirectoryIsInvalidPath ==
    DirectoryWithoutCube =>
        /\ ~saved /\ ~modelAllInvoked
        /\ cpc # "load" =>
              /\ exited /\ exitStatus = 1
              /\ logged = "The given file path is not valid."

C2_Witness ==
    DirectoryWithoutCube /\ exited /\ arguments.out

\* an option is given whose name no strategy declares
UnknownOptionGiven ==
    \E k \in DOMAIN arguments.modeler_options :
        /\ k \in OptionNames \ DeclaredOptions
        /\ arguments.modeler_options[k] # None

UnknownNestedModeler ==
    /\ cpc # "start"
    /\ arguments.modeler \in MultiModelers
    /\ SINGLE_PARAMETER_MODELER_KEY \in DOMAIN arguments.modeler_options
    /\ arguments.modeler_options[SINGLE_PARAMETER_MODELER_KEY]
          \notin {None} \cup {Str(n) : n \in SingleModelers}

\* C4: with a composite strategy and a nested-strategy key naming an
\* unregistered variant the process ends with status 1 on the lookup error;
\* model_all is never invoked and no model is printed.
C4_UnknownNestedModelerExits ==
    UnknownNestedModeler =>
        /\ ~modelAllInvoked /\ ~printed /\ ~saved
        /\ ~AfterModelAllReached
        /\ (experiment # "none" /\ cpc \notin {"generator", "configure"}) =>
              (exited /\ exitStatus = 1 /\ logged = "KeyError")

C4_Witness ==
    UnknownNestedModeler /\ experiment # "none" /\ exited /\ logged = "KeyError"

\* C5: for a composite strategy, at the time model_all is invoked the nested
\* strategy is the instance the strategy was constructed with when no nested
\* strategy is configured, and a new instance of the named variant when a
\* registered name is configured.
C5_NestedModelerAtModelAll ==
    (modeler.multi /\ AfterModelAllReached) =>
        LET options == arguments.modeler_options
            spm == modeler.single_parameter_modeler
        IN /\ (DOMAIN options = {} \/ options[SINGLE_PARAMETER_MODELER_KEY] = None) =>
                 (spm.inst = "constructed" /\ spm.variant = DefaultNestedModeler)
           /\ \A n \in SingleModelers :
                 (DOMAIN options # {} /\ options[SINGLE_PARAMETER_MODELER_KEY] = Str(n)) =>
                    (spm.inst = "fresh" /\ spm.variant = n)

C5_Witness ==
    /\ modeler.multi /\ modelAllInvoked
    /\ modeler.single_parameter_modeler.inst = "fresh"
    /\ modeler.single_parameter_modeler.variant = "Basic"

\* C10 as stated: on a composite strategy the two reserved keys are never
\* assigned as attributes of the strategy; only non-reserved keys with a value
\* other than None are assigned on it.
C10_Original ==
    modeler.multi =>
        /\ \A k \in ReservedKeys : modeler.attrs[k] = Absent
        /\ \A k \in OptionNames :
              modeler.attrs[k] # NewModeler(modeler.name).attrs[k] =>
                 (k \in DOMAIN arguments.modeler_options
                    /\ arguments.modeler_options[k] # None)

\* ========================================================================
\* Properties of the interactive driver (SpecGui)
\* ========================================================================
InEventLoop == gpc \in {"eventloop", "handler", "exec_"}

C7_Original ==
    /\ ~(excDialogs > 0 /\ gpc = "eventloop")
    /\ gExited => curExc # "RecoverableError"

\* C7 amended: in non-test mode the handler of a RecoverableError shows its
\* dialog with open() and returns to the event loop with the dialog still
\* open; it never terminates the process.
C7_RecoverableOpensAndContinues ==
    /\ [][(gpc = "handler" /\ curExc = "RecoverableError" /\ gpc' # gpc) =>
            (gpc' = "eventloop" /\ excDialogs' = excDialogs + 1 /\ ~gExited')]_vars
    /\ [](gExited => curExc # "RecoverableError")

C7_Witness ==
    gpc = "eventloop" /\ curExc = "RecoverableError" /\ excDialogs > 0 /\ ~gExited

\* C8 as stated: the worker thread has run to completion before the event
\* loop is entered in normal mode and before main returns in test mode.
C8_Original ==
    /\ InEventLoop => worker = "finished"
    /\ (test /\ gpc = "returned") => worker = "finished"

\* C8 amended: the worker thread has run to completion before main returns:
\* in test mode before (window, app) is returned, without an event loop; in
\* normal mode after app.exec_() has returned.
C8_JoinedBeforeReturn ==
    /\ gpc = "returned" => worker = "finished"
    /\ test => ~InEventLoop /\ gpc \notin {"loop_exited", "terminated"}

C8_Witness ==
    gpc = "returned" /\ ~test /\ worker = "finished"

\* the reader that belongs to a startup selector
ReaderOf(selector) ==
    IF selector = "--text" THEN "read_text_file"
    ELSE IF selector = "--json" THEN "read_json_file"
    ELSE "read_extrap3_experiment"

\* C9 as stated: for --text, --json and --extra-p-3 followed by a path the
\* file is loaded with the matching reader and modeling is run on it before
\* the event loop; without such arguments no reader and no modeling runs.
C9_Original ==
    gpc \notin {"start", "preloaded", "shown"} =>
        IF Len(argv) >= 3 /\ argv[2] \in StartupSelectors
        THEN readerCalled = ReaderOf(argv[2]) /\ windowCall = "model_experiment"
        ELSE readerCalled = "none" /\ windowCall = "none"

====
